---- MODULE Spec2Model ----
(***************************************************************************)
(* A model of the sandboxed terminal backend (terminal_backend.py) and of  *)
(* its HTTP front end (app.py).                                            *)
(*                                                                         *)
(* Text.  A Python str is a sequence of one-character strings; "CR", "LF", *)
(* "TAB" and "BQ" stand for \r, \n, \t and the backquote.  Paths, command  *)
(* lines, command output and file contents are all such sequences, so the  *)
(* string operations of the code (startswith, strip, lower, join, split,   *)
(* shlex.split, shlex.quote, re.match) are modelled on characters.         *)
(*                                                                         *)
(* Filesystem.  The host filesystem is a set of directory paths and a      *)
(* function from regular-file paths to contents.  It holds no symbolic     *)
(* link: the sandbox directory is created by the backend and no handler    *)
(* creates a link, so os.path.realpath is the lexical normalisation.       *)
(***************************************************************************)
EXTENDS Integers, Sequences, FiniteSets, TLC

\* A local name of the code: K applied to the value v.
With(v, K(_)) == K(v)

\* The statements after a call: K applied to what the call r returned, unless
\* r raised, and then the exception goes on to the caller.
Then(r, K(_)) == IF r.exc # "" THEN r ELSE K(r)

\* ------------------------------------------------------------------ text

Ascii ==
  <<" ", "!", "\"", "#", "$", "%", "&", "'", "(", ")", "*", "+", ",", "-", ".", "/",
    "0", "1", "2", "3", "4", "5", "6", "7", "8", "9", ":", ";", "<", "=", ">", "?",
    "@", "A", "B", "C", "D", "E", "F", "G", "H", "I", "J", "K", "L", "M", "N", "O",
    "P", "Q", "R", "S", "T", "U", "V", "W", "X", "Y", "Z", "[", "\\", "]", "^", "_",
    "BQ", "a", "b", "c", "d", "e", "f", "g", "h", "i", "j", "k", "l", "m", "n", "o",
    "p", "q", "r", "s", "t", "u", "v", "w", "x", "y", "z", "{", "|", "}", "~">>

\* The code point of a character.
ord(c) ==
  CASE c = "TAB" -> 9
    [] c = "LF" -> 10
    [] c = "CR" -> 13
    [] OTHER -> 31 + (CHOOSE i \in 1..Len(Ascii) : Ascii[i] = c)

\* str.lower on one character.
tolower(c) ==
  IF c \in {"TAB", "LF", "CR"} THEN c
  ELSE With(ord(c), LAMBDA n : IF n >= 65 /\ n <= 90 THEN Ascii[n + 32 - 31] ELSE c)

\* str.lower
lower(s) == [i \in 1..Len(s) |-> tolower(s[i])]

\* The characters str.strip() removes and shlex treats as separators.
Whitespace == {" ", "TAB", "CR", "LF"}

RECURSIVE lstripChars(_, _)
lstripChars(s, cs) ==
  IF s # <<>> /\ Head(s) \in cs THEN lstripChars(Tail(s), cs) ELSE s

RECURSIVE rstripChars(_, _)
rstripChars(s, cs) ==
  IF s # <<>> /\ s[Len(s)] \in cs THEN rstripChars(SubSeq(s, 1, Len(s) - 1), cs) ELSE s

\* str.strip()
strip(s) == rstripChars(lstripChars(s, Whitespace), Whitespace)

\* s.startswith(p), on the characters of the two strings.
startswith(s, p) == Len(p) <= Len(s) /\ SubSeq(s, 1, Len(p)) = p

RECURSIVE splitFrom(_, _, _, _)
splitFrom(s, sep, i, cur) ==
  IF i > Len(s) THEN <<cur>>
  ELSE IF s[i] = sep THEN <<cur>> \o splitFrom(s, sep, i + 1, <<>>)
  ELSE splitFrom(s, sep, i + 1, Append(cur, s[i]))

\* s.split(sep) for a one-character separator.
split(s, sep) == splitFrom(s, sep, 1, <<>>)

RECURSIVE joinWith(_, _)
\* sep.join(parts)
joinWith(sep, parts) ==
  IF parts = <<>> THEN <<>>
  ELSE IF Len(parts) = 1 THEN parts[1]
  ELSE parts[1] \o sep \o joinWith(sep, Tail(parts))

\* Lexicographic order of two strings by code point (the order sorted() uses).
RECURSIVE strLess(_, _)
strLess(a, b) ==
  IF b = <<>> THEN FALSE
  ELSE IF a = <<>> THEN TRUE
  ELSE IF Head(a) = Head(b) THEN strLess(Tail(a), Tail(b))
  ELSE ord(Head(a)) < ord(Head(b))

RECURSIVE sorted(_)
\* sorted(items) for a set of distinct strings.
sorted(S) ==
  IF S = {} THEN <<>>
  ELSE LET m == CHOOSE x \in S : \A y \in S \ {x} : strLess(x, y)
       IN <<m>> \o sorted(S \ {m})

\* ------------------------------------------------------------------ os.path

SEP == <<"/">>

\* The index after the last "/" of p (p.rfind("/") + 1, one-based).
RECURSIVE rfindSlash(_, _)
rfindSlash(p, i) ==
  IF i = 0 THEN 0 ELSE IF p[i] = "/" THEN i ELSE rfindSlash(p, i - 1)

\* os.path.dirname
dirname(p) ==
  With(SubSeq(p, 1, rfindSlash(p, Len(p))),
       LAMBDA head : With(rstripChars(head, {"/"}),
                          LAMBDA cut : IF head # <<>> /\ cut # <<>> THEN cut ELSE head))

\* os.path.basename
basename(p) == SubSeq(p, rfindSlash(p, Len(p)) + 1, Len(p))

\* os.path.join(a, b)
pathjoin(a, b) ==
  IF startswith(b, SEP) THEN b
  ELSE IF a = <<>> \/ a[Len(a)] = "/" THEN a \o b
  ELSE a \o SEP \o b

RECURSIVE collapse(_, _)
\* The components of an absolute path with "", "." dropped and ".." applied.
collapse(comps, stack) ==
  IF comps = <<>> THEN stack
  ELSE LET c == Head(comps)
       IN IF c = <<>> \/ c = <<".">> THEN collapse(Tail(comps), stack)
          ELSE IF c = <<".", ".">>
            THEN collapse(Tail(comps),
                          IF stack = <<>> THEN stack
                          ELSE SubSeq(stack, 1, Len(stack) - 1))
          ELSE collapse(Tail(comps), Append(stack, c))

\* The non-empty components of a path.
components(p) == collapse(split(p, "/"), <<>>)

\* os.path.realpath of an absolute path on a filesystem without links.
realpath(p) == SEP \o joinWith(SEP, components(p))

RECURSIVE commonLen(_, _)
commonLen(a, b) ==
  IF a = <<>> \/ b = <<>> \/ Head(a) # Head(b) THEN 0
  ELSE 1 + commonLen(Tail(a), Tail(b))

\* os.path.relpath(path, start)
relpath(path, start) ==
  With(components(start), LAMBDA start_list :
  With(components(path), LAMBDA path_list :
  With(commonLen(start_list, path_list), LAMBDA i :
  With([k \in 1..(Len(start_list) - i) |-> <<".", ".">>]
         \o SubSeq(path_list, i + 1, Len(path_list)), LAMBDA rel_list :
  IF rel_list = <<>> THEN <<".">> ELSE joinWith(SEP, rel_list)))))

\* ------------------------------------------------------------------ filesystem
\* A session state st is [root, cwd, dirs, files]: the two fields of
\* TerminalBackend and the host filesystem.  Every operation below returns
\* [st, exc, val]: the state it leaves, the exception it raises ("" when it
\* returns) and its return value (or the exception's message).

Ret(st, val) == [st |-> st, exc |-> "", val |-> val]

Raise(st, exc, msg) == [st |-> st, exc |-> exc, val |-> msg]

isdir(st, p) == p \in st.dirs

isfile(st, p) == p \in DOMAIN st.files

exists(st, p) == isdir(st, p) \/ isfile(st, p)

\* repr() of a path inside an OSError message.
repr(p) == <<"'">> \o p \o <<"'">>

ENOENT(p) == <<"[", "E", "r", "r", "n", "o", " ", "2", "]", " ", "N", "o", " ", "s", "u", "c", "h", " ", "f", "i", "l", "e", " ", "o", "r", " ", "d", "i", "r", "e", "c", "t", "o", "r", "y", ":", " ">> \o repr(p)

EEXIST(p) == <<"[", "E", "r", "r", "n", "o", " ", "1", "7", "]", " ", "F", "i", "l", "e", " ", "e", "x", "i", "s", "t", "s", ":", " ">> \o repr(p)

ENOTDIR(p) == <<"[", "E", "r", "r", "n", "o", " ", "2", "0", "]", " ", "N", "o", "t", " ", "a", " ", "d", "i", "r", "e", "c", "t", "o", "r", "y", ":", " ">> \o repr(p)

EISDIR(p) == <<"[", "E", "r", "r", "n", "o", " ", "2", "1", "]", " ", "I", "s", " ", "a", " ", "d", "i", "r", "e", "c", "t", "o", "r", "y", ":", " ">> \o repr(p)

\* p is d or lies below d in the directory tree.
under(p, d) == p = d \/ startswith(p, IF d = SEP THEN SEP ELSE d \o SEP)

RECURSIVE ancestors(_)
\* p and every directory above it.
ancestors(p) == IF p = SEP \/ p = <<>> THEN {SEP} ELSE {p} \cup ancestors(dirname(p))

\* Why the entry p cannot be created: "" when its parent is a directory,
\* else the error open() or mkdir() reports.
parentError(st, p) ==
  IF isdir(st, dirname(p)) THEN ""
  ELSE IF \E a \in ancestors(dirname(p)) : isfile(st, a) THEN "NotADirectoryError"
  ELSE "FileNotFoundError"

\* os.makedirs(p, exist_ok=True)
makedirs(st, p) ==
  IF isdir(st, p) THEN Ret(st, <<>>)
  ELSE IF isfile(st, p) THEN Raise(st, "FileExistsError", EEXIST(p))
  ELSE With({a \in ancestors(p) : isfile(st, dirname(a))}, LAMBDA below :
       IF below # {}
         THEN Raise(st, "NotADirectoryError", ENOTDIR(CHOOSE a \in below : TRUE))
         ELSE Ret([st EXCEPT !.dirs = @ \cup ancestors(p)], <<>>))

\* os.makedirs(p): as above, but an existing p is an error.
makedirsNew(st, p) ==
  IF exists(st, p) THEN Raise(st, "FileExistsError", EEXIST(p)) ELSE makedirs(st, p)

\* os.remove(p)
remove(st, p) ==
  IF isfile(st, p)
    THEN Ret([st EXCEPT !.files = [q \in DOMAIN @ \ {p} |-> @[q]]], <<>>)
  ELSE IF isdir(st, p) THEN Raise(st, "IsADirectoryError", EISDIR(p))
  ELSE IF parentError(st, p) = "NotADirectoryError"
    THEN Raise(st, "NotADirectoryError", ENOTDIR(p))
  ELSE Raise(st, "FileNotFoundError", ENOENT(p))

\* shutil.rmtree(p) of a directory p.
rmtree(st, p) ==
  Ret([st EXCEPT !.dirs = {d \in @ : ~under(d, p)},
                 !.files = [q \in {f \in DOMAIN @ : ~under(f, p)} |-> @[q]]], <<>>)

\* The text a file holds after write() in text mode: "\n" becomes os.linesep,
\* which is "\n" on a POSIX host.
encodeText(text) == text

RECURSIVE decodeText(_)
\* The text read() returns in text mode with universal newlines: "\r\n" and a
\* lone "\r" are read as "\n".
decodeText(data) ==
  IF data = <<>> THEN <<>>
  ELSE IF Head(data) = "CR"
    THEN IF Len(data) >= 2 /\ data[2] = "LF"
           THEN <<"LF">> \o decodeText(Tail(Tail(data)))
           ELSE <<"LF">> \o decodeText(Tail(data))
  ELSE <<Head(data)>> \o decodeText(Tail(data))

\* with open(p, "w") as f: f.write(text)
writeFile(st, p, text) ==
  IF isdir(st, p) THEN Raise(st, "IsADirectoryError", EISDIR(p))
  ELSE With(parentError(st, p), LAMBDA e :
       IF e = "NotADirectoryError" THEN Raise(st, e, ENOTDIR(p))
       ELSE IF e = "FileNotFoundError" THEN Raise(st, e, ENOENT(p))
       ELSE Ret([st EXCEPT !.files =
                   [q \in DOMAIN @ \cup {p} |-> IF q = p THEN encodeText(text) ELSE @[q]]],
                <<>>))

\* with open(p, "a"): os.utime(p, None)
appendFile(st, p) ==
  IF isfile(st, p) THEN Ret(st, <<>>) ELSE writeFile(st, p, <<>>)

\* ------------------------------------------------------------------ shutil

\* The path q of the tree at src, seen in the tree moved or copied to dst.
rebase(q, src, dst) == dst \o SubSeq(q, Len(src) + 1, Len(q))

\* The files below src, as the files of a tree at dst: path -> content.
rebased(st, src, dst) ==
  With({f \in DOMAIN st.files : under(f, src)}, LAMBDA srcFiles :
       [q \in {rebase(f, src, dst) : f \in srcFiles} |->
          st.files[CHOOSE f \in srcFiles : rebase(f, src, dst) = q]])

\* shutil.copy2(src, dst)
copy2(st, src, dst) ==
  With(IF isdir(st, dst) THEN pathjoin(dst, basename(src)) ELSE dst, LAMBDA to :
       IF exists(st, src) /\ src = to
         THEN Raise(st, "SameFileError",
                    repr(src) \o <<" ", "a", "n", "d", " ">> \o repr(to) \o <<" ", "a", "r", "e", " ", "t", "h", "e", " ", "s", "a", "m", "e", " ", "f", "i", "l", "e">>)
       ELSE IF isdir(st, src) THEN Raise(st, "IsADirectoryError", EISDIR(src))
       ELSE IF isfile(st, src) THEN writeFile(st, to, st.files[src])
       ELSE IF parentError(st, src) = "NotADirectoryError"
         THEN Raise(st, "NotADirectoryError", ENOTDIR(src))
       ELSE Raise(st, "FileNotFoundError", ENOENT(src)))

\* copytree never returns when dst lies below an existing subdirectory of
\* src: each level copied holds the copy being made.
copyUnbounded(st, src, dst) ==
  \E d \in st.dirs : d # src /\ under(d, src) /\ under(dst, d)

\* shutil.copytree(src, dst) of a directory src: dst is created (it must not
\* exist), then the entries src held are copied below it.
copytree(st, src, dst) ==
  Then(makedirsNew(st, dst), LAMBDA made :
       IF copyUnbounded(st, src, dst) THEN Raise(st, "Unbounded", <<>>)
       ELSE Ret([made.st EXCEPT
                   !.dirs = @ \cup {rebase(d, src, dst) : d \in {x \in st.dirs : under(x, src)}},
                   !.files = rebased(st, src, dst) @@ @], <<>>))

\* Whether os.rename(src, dst) succeeds.
canRename(st, src, dst) ==
  /\ exists(st, src)
  /\ isdir(st, dirname(dst))
  /\ isdir(st, src) => ~under(dst, src) \/ dst = src
  /\ isdir(st, src) => ~isfile(st, dst)
  /\ isfile(st, src) => ~isdir(st, dst)

\* os.rename(src, dst), when it succeeds: the entry and all below it move.
rename(st, src, dst) ==
  IF src = dst THEN st
  ELSE [st EXCEPT
          !.dirs = {d \in @ : ~under(d, src)}
                     \cup {rebase(d, src, dst) : d \in {x \in @ : under(x, src)}},
          !.files = rebased(st, src, dst)
                      @@ [q \in {f \in DOMAIN @ : ~under(f, src)} |-> @[q]]]

\* shutil._destinsrc
destinsrc(src, dst) ==
  startswith(IF dst[Len(dst)] = "/" THEN dst ELSE dst \o SEP,
             IF src[Len(src)] = "/" THEN src ELSE src \o SEP)

\* shutil.move, after os.rename(src, real_dst) failed.
moveByCopy(st, src, dst, real_dst) ==
  IF isdir(st, src)
    THEN IF destinsrc(src, dst)
           THEN Raise(st, "Error",
                      <<"C", "a", "n", "n", "o", "t", " ", "m", "o", "v", "e", " ", "a", " ", "d", "i", "r", "e", "c", "t", "o", "r", "y", " ", "'">> \o src \o <<"'", " ", "i", "n", "t", "o", " ", "i", "t", "s", "e", "l", "f", " ", "'">>
                        \o dst \o <<"'", ".">>)
           ELSE Then(copytree(st, src, real_dst), LAMBDA copied :
                     Ret(rmtree(copied.st, src).st, real_dst))
    ELSE Then(copy2(st, src, real_dst), LAMBDA copied :
              Ret(remove(copied.st, src).st, real_dst))

\* shutil.move(src, dst)
move(st, src, dst) ==
  IF isdir(st, dst) /\ exists(st, src) /\ src = dst THEN Ret(st, dst)
  ELSE With(IF isdir(st, dst)
              THEN pathjoin(dst, basename(rstripChars(src, {"/"}))) ELSE dst,
            LAMBDA real_dst :
              IF isdir(st, dst) /\ exists(st, real_dst)
                THEN Raise(st, "Error",
                           <<"D", "e", "s", "t", "i", "n", "a", "t", "i", "o", "n", " ", "p", "a", "t", "h", " ", "'">> \o real_dst \o <<"'", " ", "a", "l", "r", "e", "a", "d", "y", " ", "e", "x", "i", "s", "t", "s">>)
              ELSE IF canRename(st, src, real_dst)
                THEN Ret(rename(st, src, real_dst), real_dst)
              ELSE moveByCopy(st, src, dst, real_dst))

\* ------------------------------------------------------------------ TerminalBackend

\* MAX_CAT_SIZE, scaled down from 200*1024 so that files on both sides of
\* the cap occur.
MAX_CAT_SIZE == 8

\* self.root, the canonical path of the sandbox directory.
Root == <<"/", "w", "/", "s">>

\* TerminalBackend.__init__ on a host whose sandbox directory holds the
\* directories ds and the files fs.
NewBackend(ds, fs) ==
  [root |-> Root, cwd |-> Root,
   dirs |-> {SEP} \cup ancestors(Root) \cup ds, files |-> fs]

\* The containment test of _resolve: candidate.startswith(self.root)
inSandbox(st, candidate) == startswith(candidate, st.root)

\* TerminalBackend._resolve
_resolve(st, path) ==
  IF path = <<>> \/ path = <<".">> THEN Ret(st, st.cwd)
  ELSE With(realpath(IF startswith(path, SEP)
                       THEN pathjoin(st.root, lstripChars(path, {"/"}))
                       ELSE pathjoin(st.cwd, path)),
            LAMBDA candidate :
              IF ~inSandbox(st, candidate)
                THEN Raise(st, "PermissionError", <<"A", "c", "c", "e", "s", "s", " ", "o", "u", "t", "s", "i", "d", "e", " ", "s", "a", "n", "d", "b", "o", "x", " ", "i", "s", " ", "n", "o", "t", " ", "a", "l", "l", "o", "w", "e", "d", ".">>)
                ELSE Ret(st, candidate))

\* TerminalBackend.cmd_pwd
cmd_pwd(st, args) ==
  With(relpath(st.cwd, st.root), LAMBDA rel :
       Ret(st, IF rel = <<".">> THEN SEP ELSE SEP \o rel))

\* os.listdir(target)
listdir(st, target) ==
  {basename(q) : q \in {x \in st.dirs \cup DOMAIN st.files :
                          x # target /\ dirname(x) = target}}

\* cmd_ls that shows a directory entry by its bare name.
cmd_ls_bare(st, args) ==
  Then(IF args # <<>> THEN _resolve(st, args[1]) ELSE Ret(st, st.cwd), LAMBDA target :
       IF isdir(st, target.val)
         THEN Ret(st, joinWith(<<"LF">>, sorted(listdir(st, target.val))))
         ELSE Ret(st, basename(target.val)))

\* TerminalBackend.cmd_ls
cmd_ls(st, args) ==
  Then(IF args # <<>> THEN _resolve(st, args[1]) ELSE Ret(st, st.cwd), LAMBDA target :
       IF isdir(st, target.val)
         THEN With(sorted(listdir(st, target.val)), LAMBDA names :
                   Ret(st, joinWith(<<"LF">>,
                                    [i \in 1..Len(names) |->
                                       names[i] \o (IF isdir(st, pathjoin(target.val, names[i]))
                                                      THEN SEP ELSE <<>>)])))
         ELSE Ret(st, basename(target.val)))

\* cmd_cd that answers a cd without arguments and leaves cwd where it is.
cmd_cd_stays(st, args) ==
  IF args = <<>> THEN Ret(st, <<>>)
  ELSE Then(_resolve(st, args[1]), LAMBDA target :
            IF isdir(st, target.val) THEN Ret([st EXCEPT !.cwd = target.val], <<>>)
            ELSE Ret(st, <<"c", "d", ":", " ", "n", "o", " ", "s", "u", "c", "h", " ", "d", "i", "r", "e", "c", "t", "o", "r", "y", ":", " ">> \o args[1]))

\* cmd_cd that enters its target without testing that it is a directory.
cmd_cd_untested(st, args) ==
  IF args = <<>> THEN Ret([st EXCEPT !.cwd = st.root], <<>>)
  ELSE Then(_resolve(st, args[1]), LAMBDA target : Ret([st EXCEPT !.cwd = target.val], <<>>))

\* TerminalBackend.cmd_cd
cmd_cd(st, args) ==
  IF args = <<>> THEN Ret([st EXCEPT !.cwd = st.root], <<>>)
  ELSE Then(_resolve(st, args[1]), LAMBDA target :
            IF isdir(st, target.val) THEN Ret([st EXCEPT !.cwd = target.val], <<>>)
            ELSE Ret(st, <<"c", "d", ":", " ", "n", "o", " ", "s", "u", "c", "h", " ", "d", "i", "r", "e", "c", "t", "o", "r", "y", ":", " ">> \o args[1]))

\* cmd_mkdir that fails on a directory that exists (makedirs without exist_ok).
cmd_mkdir_exclusive(st, args) ==
  IF args = <<>> THEN Ret(st, <<"m", "k", "d", "i", "r", ":", " ", "m", "i", "s", "s", "i", "n", "g", " ", "o", "p", "e", "r", "a", "n", "d">>)
  ELSE Then(_resolve(st, args[1]), LAMBDA path :
       IF isdir(st, path.val) THEN Raise(st, "FileExistsError", EEXIST(path.val))
       ELSE Then(makedirs(st, path.val), LAMBDA made : Ret(made.st, <<>>)))

\* TerminalBackend.cmd_mkdir
cmd_mkdir(st, args) ==
  IF args = <<>> THEN Ret(st, <<"m", "k", "d", "i", "r", ":", " ", "m", "i", "s", "s", "i", "n", "g", " ", "o", "p", "e", "r", "a", "n", "d">>)
  ELSE Then(_resolve(st, args[1]), LAMBDA path :
       Then(makedirs(st, path.val), LAMBDA made : Ret(made.st, <<>>)))

\* "-r" in args or "--recursive" in args
recursiveFlag(args) ==
  \E i \in 1..Len(args) : args[i] = <<"-", "r">> \/ args[i] = <<"-", "-", "r", "e", "c", "u", "r", "s", "i", "v", "e">>

\* TerminalBackend.cmd_rm
cmd_rm(st, args) ==
  IF args = <<>> THEN Ret(st, <<"r", "m", ":", " ", "m", "i", "s", "s", "i", "n", "g", " ", "o", "p", "e", "r", "a", "n", "d">>)
  ELSE Then(_resolve(st, args[1]), LAMBDA path :
            IF path.val = st.root THEN Ret(st, <<"r", "m", ":", " ", "r", "e", "f", "u", "s", "i", "n", "g", " ", "t", "o", " ", "r", "e", "m", "o", "v", "e", " ", "r", "o", "o", "t", " ", "s", "a", "n", "d", "b", "o", "x">>)
            ELSE IF isdir(st, path.val)
              THEN IF recursiveFlag(args) THEN Ret(rmtree(st, path.val).st, <<>>)
                   ELSE Ret(st, <<"r", "m", ":", " ", "i", "s", " ", "a", " ", "d", "i", "r", "e", "c", "t", "o", "r", "y", " ", "(", "u", "s", "e", " ", "-", "r", " ", "t", "o", " ", "r", "e", "m", "o", "v", "e", " ", "d", "i", "r", "e", "c", "t", "o", "r", "i", "e", "s", ")">>)
            ELSE Then(remove(st, path.val), LAMBDA gone : Ret(gone.st, <<>>)))

RECURSIVE decimal(_)
\* str(n) for a natural number n.
decimal(n) ==
  IF n < 10 THEN <<Ascii[17 + n]>> ELSE decimal(n \div 10) \o <<Ascii[17 + (n % 10)]>>

\* os.path.getsize(p): the bytes of the file, one per character.
getsize(st, p) == Len(st.files[p])

\* cmd_cat that refuses a file from the size MAX_CAT_SIZE on.
cmd_cat_below_cap(st, args) ==
  IF args = <<>> THEN Ret(st, <<"c", "a", "t", ":", " ", "m", "i", "s", "s", "i", "n", "g", " ", "f", "i", "l", "e", " ", "o", "p", "e", "r", "a", "n", "d">>)
  ELSE Then(_resolve(st, args[1]), LAMBDA path :
            IF ~isfile(st, path.val)
              THEN Ret(st, <<"c", "a", "t", ":", " ">> \o args[1] \o <<":", " ", "N", "o", " ", "s", "u", "c", "h", " ", "f", "i", "l", "e">>)
            ELSE With(getsize(st, path.val), LAMBDA size :
                      IF size >= MAX_CAT_SIZE
                        THEN Ret(st, <<"c", "a", "t", ":", " ", "f", "i", "l", "e", " ", "t", "o", "o", " ", "l", "a", "r", "g", "e", " ", "(">> \o decimal(size) \o <<" ", "b", "y", "t", "e", "s", ")">>)
                        ELSE Ret(st, decodeText(st.files[path.val]))))

\* TerminalBackend.cmd_cat
cmd_cat(st, args) ==
  IF args = <<>> THEN Ret(st, <<"c", "a", "t", ":", " ", "m", "i", "s", "s", "i", "n", "g", " ", "f", "i", "l", "e", " ", "o", "p", "e", "r", "a", "n", "d">>)
  ELSE Then(_resolve(st, args[1]), LAMBDA path :
            IF ~isfile(st, path.val)
              THEN Ret(st, <<"c", "a", "t", ":", " ">> \o args[1] \o <<":", " ", "N", "o", " ", "s", "u", "c", "h", " ", "f", "i", "l", "e">>)
            ELSE With(getsize(st, path.val), LAMBDA size :
                      IF size > MAX_CAT_SIZE
                        THEN Ret(st, <<"c", "a", "t", ":", " ", "f", "i", "l", "e", " ", "t", "o", "o", " ", "l", "a", "r", "g", "e", " ", "(">> \o decimal(size) \o <<" ", "b", "y", "t", "e", "s", ")">>)
                        ELSE Ret(st, decodeText(st.files[path.val]))))

\* TerminalBackend.cmd_touch
cmd_touch(st, args) ==
  IF args = <<>> THEN Ret(st, <<"t", "o", "u", "c", "h", ":", " ", "m", "i", "s", "s", "i", "n", "g", " ", "f", "i", "l", "e", " ", "o", "p", "e", "r", "a", "n", "d">>)
  ELSE Then(_resolve(st, args[1]), LAMBDA path :
       Then(makedirs(st, dirname(path.val)), LAMBDA made :
       Then(appendFile(made.st, path.val), LAMBDA opened : Ret(opened.st, <<>>))))

\* TerminalBackend.cmd_mv
cmd_mv(st, args) ==
  IF Len(args) < 2 THEN Ret(st, <<"m", "v", ":", " ", "m", "i", "s", "s", "i", "n", "g", " ", "o", "p", "e", "r", "a", "n", "d">>)
  ELSE Then(_resolve(st, args[1]), LAMBDA src :
       Then(_resolve(st, args[2]), LAMBDA dst :
       Then(move(st, src.val, dst.val), LAMBDA moved : Ret(moved.st, <<>>))))

\* cmd_cp, once both paths are resolved.
copyResolved(st, src, dst) ==
  IF isdir(st, src)
    THEN Then(copytree(st, src, dst), LAMBDA copied : Ret(copied.st, <<>>))
    ELSE Then(makedirs(st, dirname(dst)), LAMBDA made :
         Then(copy2(made.st, src, dst), LAMBDA copied : Ret(copied.st, <<>>)))

\* TerminalBackend.cmd_cp
cmd_cp(st, args) ==
  IF Len(args) < 2 THEN Ret(st, <<"c", "p", ":", " ", "m", "i", "s", "s", "i", "n", "g", " ", "o", "p", "e", "r", "a", "n", "d">>)
  ELSE Then(_resolve(st, args[1]), LAMBDA src :
       Then(_resolve(st, args[2]), LAMBDA dst : copyResolved(st, src.val, dst.val)))

\* TerminalBackend.cmd_echo
cmd_echo(st, args) == Ret(st, joinWith(<<" ">>, args))

\* TerminalBackend.cmd_ps on a host with one process.
cmd_ps(st, args) == Ret(st, <<" ", " ", " ", " ", " ", "1", " ", "i", "n", "i", "t", " ", " ", " ", " ", " ", " ", " ", " ", " ", " ", " ", " ", " ", " ", " ", " ", " ", " ", " ", " ", " ", " ", " ", " ", " ", " ", " ", "C", "P", "U", ":", " ", " ", "0", ".", "0", " ", "M", "E", "M", ":", " ", " ", "0", ".", "1">>)

\* TerminalBackend.cmd_sysinfo on a host with two cores and 1 GiB of memory.
cmd_sysinfo(st, args) ==
  Ret(st, <<"C", "P", "U", ":", " ", "1", ".", "0", "%", "LF", "M", "e", "m", "o", "r", "y", ":", " ", "5", "0", ".", "0", "%", " ", "(", "5", "1", "2", "M", "B", " ", "/", " ", "1", "0", "2", "4", "M", "B", ")", "LF", "C", "o", "r", "e", "s", ":", " ", "2">>)

\* TerminalBackend.COMMANDS: the registered command names.
COMMANDS ==
  {<<"p", "w", "d">>, <<"l", "s">>, <<"c", "d">>, <<"m", "k", "d", "i", "r">>, <<"r", "m">>, <<"c", "a", "t">>, <<"t", "o", "u", "c", "h">>, <<"m", "v">>, <<"c", "p">>,
   <<"e", "c", "h", "o">>, <<"p", "s">>, <<"s", "y", "s", "i", "n", "f", "o">>, <<"h", "e", "l", "p">>}

\* TerminalBackend.CMD_DESCRIPTIONS
CMD_DESCRIPTIONS(cmd) ==
  CASE cmd = <<"p", "w", "d">> -> <<"P", "r", "i", "n", "t", " ", "t", "h", "e", " ", "c", "u", "r", "r", "e", "n", "t", " ", "w", "o", "r", "k", "i", "n", "g", " ", "d", "i", "r", "e", "c", "t", "o", "r", "y", ".">>
    [] cmd = <<"l", "s">> -> <<"L", "i", "s", "t", " ", "d", "i", "r", "e", "c", "t", "o", "r", "y", " ", "c", "o", "n", "t", "e", "n", "t", "s", ".">>
    [] cmd = <<"c", "d">> -> <<"C", "h", "a", "n", "g", "e", " ", "t", "h", "e", " ", "c", "u", "r", "r", "e", "n", "t", " ", "w", "o", "r", "k", "i", "n", "g", " ", "d", "i", "r", "e", "c", "t", "o", "r", "y", ".">>
    [] cmd = <<"m", "k", "d", "i", "r">> -> <<"C", "r", "e", "a", "t", "e", " ", "a", " ", "n", "e", "w", " ", "d", "i", "r", "e", "c", "t", "o", "r", "y", ".">>
    [] cmd = <<"r", "m">> -> <<"R", "e", "m", "o", "v", "e", " ", "f", "i", "l", "e", "s", " ", "o", "r", " ", "d", "i", "r", "e", "c", "t", "o", "r", "i", "e", "s", " ", "(", "-", "r", " ", "f", "o", "r", " ", "r", "e", "c", "u", "r", "s", "i", "v", "e", ")", ".">>
    [] cmd = <<"c", "a", "t">> -> <<"D", "i", "s", "p", "l", "a", "y", " ", "t", "h", "e", " ", "c", "o", "n", "t", "e", "n", "t", " ", "o", "f", " ", "a", " ", "f", "i", "l", "e", ".">>
    [] cmd = <<"t", "o", "u", "c", "h">> -> <<"C", "r", "e", "a", "t", "e", " ", "a", " ", "n", "e", "w", ",", " ", "e", "m", "p", "t", "y", " ", "f", "i", "l", "e", ".">>
    [] cmd = <<"m", "v">> -> <<"M", "o", "v", "e", " ", "o", "r", " ", "r", "e", "n", "a", "m", "e", " ", "a", " ", "f", "i", "l", "e", " ", "o", "r", " ", "d", "i", "r", "e", "c", "t", "o", "r", "y", ".">>
    [] cmd = <<"c", "p">> -> <<"C", "o", "p", "y", " ", "f", "i", "l", "e", "s", " ", "o", "r", " ", "d", "i", "r", "e", "c", "t", "o", "r", "i", "e", "s", ".">>
    [] cmd = <<"e", "c", "h", "o">> -> <<"D", "i", "s", "p", "l", "a", "y", " ", "a", " ", "l", "i", "n", "e", " ", "o", "f", " ", "t", "e", "x", "t", ".">>
    [] cmd = <<"p", "s">> -> <<"D", "i", "s", "p", "l", "a", "y", " ", "a", " ", "l", "i", "s", "t", " ", "o", "f", " ", "r", "u", "n", "n", "i", "n", "g", " ", "p", "r", "o", "c", "e", "s", "s", "e", "s", ".">>
    [] cmd = <<"s", "y", "s", "i", "n", "f", "o">> -> <<"D", "i", "s", "p", "l", "a", "y", " ", "s", "y", "s", "t", "e", "m", " ", "i", "n", "f", "o", "r", "m", "a", "t", "i", "o", "n", " ", "(", "C", "P", "U", ",", " ", "m", "e", "m", "o", "r", "y", ",", " ", "c", "o", "r", "e", "s", ")", ".">>
    [] cmd = <<"h", "e", "l", "p">> -> <<"S", "h", "o", "w", " ", "t", "h", "i", "s", " ", "h", "e", "l", "p", " ", "m", "e", "s", "s", "a", "g", "e", ".">>
    [] OTHER -> <<"N", "o", " ", "d", "e", "s", "c", "r", "i", "p", "t", "i", "o", "n", " ", "a", "v", "a", "i", "l", "a", "b", "l", "e", ".">>

\* f"{s:<10}"
ljust10(s) == s \o [i \in 1..(IF Len(s) < 10 THEN 10 - Len(s) ELSE 0) |-> " "]

\* TerminalBackend.cmd_help
cmd_help(st, args) ==
  LET names == sorted(COMMANDS)
      lines == [i \in 1..Len(names) |->
                  <<" ", " ">> \o ljust10(names[i]) \o <<" ", "-", " ">> \o CMD_DESCRIPTIONS(names[i])]
  IN Ret(st, joinWith(<<"LF">>, <<<<"A", "v", "a", "i", "l", "a", "b", "l", "e", " ", "c", "o", "m", "m", "a", "n", "d", "s", ":">>>> \o lines))

\* handler(self, args) for a registered command.
handler(cmd, st, args) ==
  CASE cmd = <<"p", "w", "d">> -> cmd_pwd(st, args)
    [] cmd = <<"l", "s">> -> cmd_ls(st, args)
    [] cmd = <<"c", "d">> -> cmd_cd(st, args)
    [] cmd = <<"m", "k", "d", "i", "r">> -> cmd_mkdir(st, args)
    [] cmd = <<"r", "m">> -> cmd_rm(st, args)
    [] cmd = <<"c", "a", "t">> -> cmd_cat(st, args)
    [] cmd = <<"t", "o", "u", "c", "h">> -> cmd_touch(st, args)
    [] cmd = <<"m", "v">> -> cmd_mv(st, args)
    [] cmd = <<"c", "p">> -> cmd_cp(st, args)
    [] cmd = <<"e", "c", "h", "o">> -> cmd_echo(st, args)
    [] cmd = <<"p", "s">> -> cmd_ps(st, args)
    [] cmd = <<"s", "y", "s", "i", "n", "f", "o">> -> cmd_sysinfo(st, args)
    [] cmd = <<"h", "e", "l", "p">> -> cmd_help(st, args)

\* The try block of _run_command_parts: the handler's result, or the message
\* made of the exception it raised.
handled(r) ==
  IF r.exc = "" THEN [st |-> r.st, out |-> r.val, ok |-> TRUE]
  ELSE IF r.exc = "PermissionError"
    THEN [st |-> r.st, out |-> <<"P", "e", "r", "m", "i", "s", "s", "i", "o", "n", "E", "r", "r", "o", "r", ":", " ">> \o r.val, ok |-> FALSE]
  ELSE [st |-> r.st, out |-> <<"E", "r", "r", "o", "r", ":", " ">> \o r.val, ok |-> FALSE]

\* _run_command_parts reporting the whole line, not its first token, as the
\* command that was not found.
_run_command_parts_whole_line(st, parts) ==
  IF parts = <<>> THEN [st |-> st, out |-> <<>>, ok |-> TRUE]
  ELSE IF parts[1] \in COMMANDS THEN handled(handler(parts[1], st, Tail(parts)))
  ELSE [st |-> st, out |-> joinWith(<<" ">>, parts) \o <<":", " ", "c", "o", "m", "m", "a", "n", "d", " ", "n", "o", "t", " ", "f", "o", "u", "n", "d">>, ok |-> FALSE]

\* TerminalBackend._run_command_parts: [st, out, ok].
_run_command_parts(st, parts) ==
  IF parts = <<>> THEN [st |-> st, out |-> <<>>, ok |-> TRUE]
  ELSE IF parts[1] \in COMMANDS THEN handled(handler(parts[1], st, Tail(parts)))
  ELSE [st |-> st, out |-> parts[1] \o <<":", " ", "c", "o", "m", "m", "a", "n", "d", " ", "n", "o", "t", " ", "f", "o", "u", "n", "d">>, ok |-> FALSE]

\* ------------------------------------------------------------------ shlex, re

\* The characters shlex.quote leaves unquoted: [\w@%+=:,./-].
safeChar(c) ==
  \/ c \in {"@", "%", "+", "=", ":", ",", ".", "/", "-", "_"}
  \/ c \notin {"TAB", "LF", "CR"}
     /\ With(ord(c), LAMBDA n :
              (n >= 48 /\ n <= 57) \/ (n >= 65 /\ n <= 90) \/ (n >= 97 /\ n <= 122))

RECURSIVE replaceQuote(_)
\* s.replace("'", "'\"'\"'")
replaceQuote(s) ==
  IF s = <<>> THEN <<>>
  ELSE (IF Head(s) = "'" THEN <<"'", "\"", "'", "\"", "'">> ELSE <<Head(s)>>)
         \o replaceQuote(Tail(s))

\* shlex.quote
quote(s) ==
  IF s = <<>> THEN <<"'", "'">>
  ELSE IF \A i \in 1..Len(s) : safeChar(s[i]) THEN s
  ELSE <<"'">> \o replaceQuote(s) \o <<"'">>

RECURSIVE read_token(_, _, _, _, _, _, _)
\* shlex.split(s) in POSIX mode, the lexer's read_token run to the end of the
\* input: i is the next character, state the lexer state (" " between
\* tokens, "a" inside a word, a quote character inside quotes, "\\" after
\* an escape), escapedstate the state an escape returns to, token the
\* characters of the current token, quoted whether it has seen a quote, toks
\* the tokens read.  [err, toks]: err is the ValueError message, or <<>>.
read_token(s, i, state, escapedstate, token, quoted, toks) ==
  IF i > Len(s)
    THEN IF state \in {"'", "\""}
           THEN [err |-> <<"N", "o", " ", "c", "l", "o", "s", "i", "n", "g", " ", "q", "u", "o", "t", "a", "t", "i", "o", "n">>, toks |-> toks]
         ELSE IF state = "\\"
           THEN [err |-> <<"N", "o", " ", "e", "s", "c", "a", "p", "e", "d", " ", "c", "h", "a", "r", "a", "c", "t", "e", "r">>, toks |-> toks]
         ELSE IF token # <<>> \/ quoted
           THEN [err |-> <<>>, toks |-> Append(toks, token)]
         ELSE [err |-> <<>>, toks |-> toks]
  ELSE LET c == s[i]
       IN IF state = " "
            THEN IF c \in Whitespace
                   THEN read_token(s, i + 1, " ", escapedstate, token, quoted, toks)
                 ELSE IF c = "\\"
                   THEN read_token(s, i + 1, "\\", "a", token, quoted, toks)
                 ELSE IF c \in {"'", "\""}
                   THEN read_token(s, i + 1, c, escapedstate, token, quoted, toks)
                 ELSE read_token(s, i + 1, "a", escapedstate, <<c>>, quoted, toks)
          ELSE IF state \in {"'", "\""}
            THEN IF c = state
                   THEN read_token(s, i + 1, "a", escapedstate, token, TRUE, toks)
                 ELSE IF c = "\\" /\ state = "\""
                   THEN read_token(s, i + 1, "\\", state, token, TRUE, toks)
                 ELSE read_token(s, i + 1, state, escapedstate, Append(token, c), TRUE, toks)
          ELSE IF state = "\\"
            THEN read_token(s, i + 1, escapedstate, escapedstate,
                            (IF escapedstate \in {"'", "\""} /\ c # "\\" /\ c # escapedstate
                               THEN Append(token, "\\") ELSE token) \o <<c>>,
                            quoted, toks)
          ELSE IF c \in Whitespace
            THEN IF token # <<>> \/ quoted
                   THEN read_token(s, i + 1, " ", escapedstate, <<>>, FALSE,
                                   Append(toks, token))
                 ELSE read_token(s, i + 1, " ", escapedstate, token, quoted, toks)
          ELSE IF c \in {"'", "\""}
            THEN read_token(s, i + 1, c, escapedstate, token, quoted, toks)
          ELSE IF c = "\\"
            THEN read_token(s, i + 1, "\\", "a", token, quoted, toks)
          ELSE read_token(s, i + 1, "a", escapedstate, Append(token, c), quoted, toks)

\* shlex.split
shlex_split(s) == read_token(s, 1, " ", " ", <<>>, FALSE, <<>>)

\* The part of s that "." can match from its start: up to the first newline.
firstLine(s) ==
  IF \E i \in 1..Len(s) : s[i] = "LF"
    THEN SubSeq(s, 1, (CHOOSE i \in 1..Len(s) :
                         s[i] = "LF" /\ \A j \in 1..(i - 1) : s[j] # "LF") - 1)
    ELSE s

\* re.match(prefix + r'(.+)', s): [ok, g1].
matchRest(s, prefix) ==
  With(firstLine(SubSeq(s, Len(prefix) + 1, Len(s))), LAMBDA rest :
       IF startswith(s, prefix) /\ rest # <<>>
         THEN [ok |-> TRUE, g1 |-> rest] ELSE [ok |-> FALSE, g1 |-> <<>>])

\* re.match(r'create (?:a )?folder called (.+)', s)
matchCreateFolder(s) ==
  IF startswith(s, <<"c", "r", "e", "a", "t", "e", " ", "a", " ", "f", "o", "l", "d", "e", "r", " ", "c", "a", "l", "l", "e", "d", " ">>)
    THEN matchRest(s, <<"c", "r", "e", "a", "t", "e", " ", "a", " ", "f", "o", "l", "d", "e", "r", " ", "c", "a", "l", "l", "e", "d", " ">>)
    ELSE matchRest(s, <<"c", "r", "e", "a", "t", "e", " ", "f", "o", "l", "d", "e", "r", " ", "c", "a", "l", "l", "e", "d", " ">>)

\* re.match(r'move (.+) to (.+)', s): the first group is greedy, so it ends
\* at the last " to " of the line that leaves both groups non-empty.
matchMove(s) ==
  With(firstLine(s), LAMBDA line :
  With({k \in 7..(Len(line) - 4) : SubSeq(line, k, k + 3) = <<" ", "t", "o", " ">>}, LAMBDA cuts :
       IF startswith(s, <<"m", "o", "v", "e", " ">>) /\ cuts # {}
         THEN With(CHOOSE x \in cuts : \A y \in cuts : y <= x, LAMBDA k :
                   [ok |-> TRUE, g1 |-> SubSeq(line, 6, k - 1),
                    g2 |-> SubSeq(line, k + 4, Len(line))])
         ELSE [ok |-> FALSE, g1 |-> <<>>, g2 |-> <<>>]))

\* The three rules of nl_to_cmd on the stripped, lower-cased line nl, in the
\* order the code tries them.
translate(nl) ==
  With(matchCreateFolder(nl), LAMBDA m1 :
       IF m1.ok THEN [matched |-> TRUE, cmd |-> <<"m", "k", "d", "i", "r", " ">> \o quote(m1.g1)]
       ELSE With(matchMove(nl), LAMBDA m2 :
       IF m2.ok
         THEN [matched |-> TRUE,
               cmd |-> <<"m", "v", " ">> \o quote(m2.g1) \o <<" ">> \o quote(m2.g2)]
       ELSE With(matchRest(nl, <<"c", "r", "e", "a", "t", "e", " ", "f", "i", "l", "e", " ">>), LAMBDA m3 :
       IF m3.ok THEN [matched |-> TRUE, cmd |-> <<"t", "o", "u", "c", "h", " ">> \o quote(m3.g1)]
       ELSE [matched |-> FALSE, cmd |-> <<>>])))

\* nl_to_cmd: [matched, cmd]; matched is FALSE where the code returns None.
nl_to_cmd(nl) == translate(lower(strip(nl)))

\* ------------------------------------------------------------------ execute

\* parts.index(">"), one-based; 0 when ">" is not a token.
indexOfRedirect(parts) ==
  IF \E i \in 1..Len(parts) : parts[i] = <<">">>
    THEN CHOOSE i \in 1..Len(parts) :
           parts[i] = <<">">> /\ \A j \in 1..(i - 1) : parts[j] # <<">">>
    ELSE 0

\* execute without a call of _run_command_parts: it returns val.
returned(st, val) == Ret(st, val) @@ [ran |-> FALSE, out |-> <<>>, ok |-> TRUE]

\* The redirection branch of execute, after the command part has run and
\* returned r: the target is resolved, its parent directories are made and
\* out is written.  None of the three steps is inside a try block.
redirect(r, out_file) ==
  Then(_resolve(r.st, out_file), LAMBDA target :
  Then(makedirs(r.st, dirname(target.val)), LAMBDA made :
  Then(writeFile(made.st, target.val, r.out), LAMBDA written : Ret(written.st, <<>>))))
    @@ [ran |-> TRUE, out |-> r.out, ok |-> r.ok]

\* execute that runs the command part of a line before it looks for the
\* target of the ">" token at idx.
executeRedirect_command_first(st, parts, idx) ==
  IF idx + 1 > Len(parts)
    THEN returned(_run_command_parts(st, SubSeq(parts, 1, idx - 1)).st,
                  <<"s", "y", "n", "t", "a", "x", " ", "e", "r", "r", "o", "r", " ", "n", "e", "a", "r", " ", "u", "n", "e", "x", "p", "e", "c", "t", "e", "d", " ", "t", "o", "k", "e", "n", " ", "'", ">", "'">>)
    ELSE redirect(_run_command_parts(st, SubSeq(parts, 1, idx - 1)), parts[idx + 1])

\* execute on a line that has a ">" token at idx.
executeRedirect(st, parts, idx) ==
  IF idx + 1 > Len(parts)
    THEN returned(st, <<"s", "y", "n", "t", "a", "x", " ", "e", "r", "r", "o", "r", " ", "n", "e", "a", "r", " ", "u", "n", "e", "x", "p", "e", "c", "t", "e", "d", " ", "t", "o", "k", "e", "n", " ", "'", ">", "'">>)
    ELSE redirect(_run_command_parts(st, SubSeq(parts, 1, idx - 1)), parts[idx + 1])

\* execute on a line without redirection.
executePlain(st, parts) ==
  With(_run_command_parts(st, parts), LAMBDA r :
       Ret(r.st, r.out) @@ [ran |-> TRUE, out |-> r.out, ok |-> r.ok])

\* execute, once the line is tokenized.
executeParts(st, lexed) ==
  IF lexed.err # <<>> THEN returned(st, <<"p", "a", "r", "s", "e", " ", "e", "r", "r", "o", "r", ":", " ">> \o lexed.err)
  ELSE With(indexOfRedirect(lexed.toks), LAMBDA idx :
            IF idx > 0 THEN executeRedirect(st, lexed.toks, idx)
            ELSE executePlain(st, lexed.toks))

\* TerminalBackend.execute: [st, exc, val, ran, out, ok].  exc names the
\* exception that leaves execute ("" when it returns val); ran tells whether
\* _run_command_parts was called, out and ok are what it returned.
execute(st, raw_cmd) ==
  With(nl_to_cmd(raw_cmd), LAMBDA nl_cmd :
  With(strip(IF nl_cmd.matched THEN nl_cmd.cmd ELSE raw_cmd), LAMBDA line :
       IF line = <<>> THEN returned(st, <<>>) ELSE executeParts(st, shlex_split(line))))

\* ------------------------------------------------------------------ the session

\* The number of execute calls a session makes.
MaxSteps == 2

VARIABLES
  root,   \* self.root
  cwd,    \* self.cwd
  dirs,   \* the directories of the host filesystem
  files,  \* the regular files of the host filesystem, path -> content
  raw,    \* the line given to the last execute call
  exc,    \* the exception that call raised, "" when it returned
  ret,    \* the text it returned (the exception's message when it raised)
  ran,    \* whether it called _run_command_parts
  out,    \* the text _run_command_parts returned to it
  ok,     \* the flag _run_command_parts returned to it
  steps,  \* the execute calls made so far
  http    \* the requests of the HTTP front end, one record per server thread

vars == <<root, cwd, dirs, files, raw, exc, ret, ran, out, ok, steps, http>>

\* The threads of the HTTP server that serve requests at the same time.
HttpThreads == 2

\* A server thread that has no request.
Idle == [pc |-> "idle", line |-> <<>>, src |-> <<>>, dst |-> <<>>,
         cwdSrc |-> <<>>, cwdDst |-> <<>>, output |-> <<>>, left |-> <<>>,
         cwdSent |-> <<>>]

\* The session state the operators above work on.
State == [root |-> root, cwd |-> cwd, dirs |-> dirs, files |-> files]

\* What the sandbox directory may hold when the backend is constructed
\* (os.makedirs(self.root, exist_ok=True) keeps an earlier session's
\* entries): nothing, or a small tree.
Layouts ==
  {[dirs |-> {}, files |-> <<>>],
   [dirs |-> {<<"/", "w", "/", "s", "/", "a">>, <<"/", "w", "/", "s", "/", "a", "/", "b">>},
    files |-> (<<"/", "w", "/", "s", "/", "f">> :> <<"h", "i">>) @@ (<<"/", "w", "/", "s", "/", "a", "/", "g">> :> <<>>)]}

\* The session after construction.
Start(b) ==
  /\ root = b.root
  /\ cwd = b.cwd
  /\ dirs = b.dirs
  /\ files = b.files
  /\ raw = <<>>
  /\ exc = ""
  /\ ret = <<>>
  /\ ran = FALSE
  /\ out = <<>>
  /\ ok = TRUE
  /\ steps = 0
  /\ http = [t \in 1..HttpThreads |-> Idle]

Init == \E l \in Layouts : Start(NewBackend(l.dirs, l.files))

\* Lines naming a registered command, without redirection.
CommandLines ==
  {<<"p", "w", "d">>, <<"l", "s">>, <<"l", "s", " ", "a">>, <<"c", "d">>, <<"c", "d", " ", "a">>, <<"c", "d", " ", ".", ".">>, <<"c", "d", " ", ".", ".", "/", "s", "2">>, <<"c", "d", " ", "f">>,
   <<"m", "k", "d", "i", "r", " ", "a">>, <<"m", "k", "d", "i", "r", " ", "D">>, <<"m", "k", "d", "i", "r", " ", "a", "/", "b">>, <<"m", "k", "d", "i", "r", " ", ".", ".", "/", "s", "2">>, <<"m", "k", "d", "i", "r", " ", ".", ".", "/", "x">>,
   <<"r", "m", " ", "a">>, <<"r", "m", " ", "a", " ", "-", "r">>, <<"r", "m", " ", "-", "r", " ", "a">>, <<"r", "m", " ", "/">>, <<"r", "m", " ", "-", "r", " ", "/">>, <<"r", "m", " ", "/", " ", "-", "r">>, <<"r", "m", " ", ".", ".">>,
   <<"r", "m", " ", ".">>, <<"r", "m", " ", "f">>, <<"r", "m", " ", ".", ".", "/", "s", "2", " ", "-", "-", "r", "e", "c", "u", "r", "s", "i", "v", "e">>,
   <<"c", "a", "t", " ", "f">>, <<"c", "a", "t", " ", "a">>, <<"c", "a", "t", " ", "g">>,
   <<"t", "o", "u", "c", "h", " ", "f">>, <<"t", "o", "u", "c", "h", " ", "-", "r">>, <<"t", "o", "u", "c", "h", " ", "a", "/", "f">>,
   <<"m", "v", " ", "a", " ", "b">>, <<"m", "v", " ", "a", " ", ".", ".", "/", "x">>, <<"m", "v", " ", "f", " ", "g">>, <<"m", "v", " ", "/", " ", ".", ".", "/", "s", "2">>,
   <<"c", "p", " ", "f", " ", "g">>, <<"c", "p", " ", "a", " ", "b">>, <<"c", "p", " ", "n", "o", "p", "e", " ", "n", "/", "g">>, <<"c", "p", " ", "f", " ", ".", ".", "/", "x">>,
   <<"e", "c", "h", "o", " ", "h", "i">>, <<"p", "s">>, <<"s", "y", "s", "i", "n", "f", "o">>, <<"h", "e", "l", "p">>}

\* Lines whose first token is no registered command.
UnknownLines == {<<"f", "o", "o", " ", "b", "a", "r">>, <<"L", "S">>, <<"m", "k", "d", "i", "r", "s", " ", "a">>, <<"'", "x", " ", "y", "'", " ", "z">>}

\* Lines with a ">" token.
RedirectLines ==
  {<<"e", "c", "h", "o", " ", "h", "i", " ", ">", " ", "f">>, <<"e", "c", "h", "o", " ", "'", "a", "CR", "b", "'", " ", ">", " ", "g">>, <<"e", "c", "h", "o", " ", "h", "i", " ", ">", " ", ".", ".", "/", "x">>, <<"e", "c", "h", "o", " ", "h", "i", " ", ">", " ", "a">>,
   <<"e", "c", "h", "o", " ", "h", "i", " ", ">", " ", "f", "/", "g">>, <<"e", "c", "h", "o", " ", "h", "i", " ", ">", " ", ".", ".", "/", "s", "2", "/", "x">>, <<"m", "k", "d", "i", "r", " ", "D", " ", ">", " ", ".", ".", "/", "x">>, <<"c", "d", " ", "a", " ", ">", " ", "g">>,
   <<"f", "o", "o", " ", ">", " ", "f">>, <<"l", "s", " ", ">", " ", "g">>, <<"c", "a", "t", " ", "f", " ", ">", " ", "f">>}

\* Lines in the translator's phrasing.
NaturalLines ==
  {<<"c", "r", "e", "a", "t", "e", " ", "a", " ", "f", "o", "l", "d", "e", "r", " ", "c", "a", "l", "l", "e", "d", " ", "D">>, <<"c", "r", "e", "a", "t", "e", " ", "f", "o", "l", "d", "e", "r", " ", "c", "a", "l", "l", "e", "d", " ", "a">>, <<"m", "o", "v", "e", " ", "a", " ", "t", "o", " ", "b">>,
   <<"m", "o", "v", "e", " ", "f", " ", "t", "o", " ", "G">>, <<"c", "r", "e", "a", "t", "e", " ", "f", "i", "l", "e", " ", "f">>}

\* Empty lines and lines the tokenizer or the redirection syntax rejects.
MalformedLines == {<<>>, <<" ", " ">>, <<"e", "c", "h", "o", " ", "'", "x">>, <<"e", "c", "h", "o", " ", "h", "i", " ", ">">>, <<"m", "k", "d", "i", "r", " ", "D", " ", ">">>}

\* The session after an execute call on line that ended as r.
Called(line, r) ==
  /\ cwd' = r.st.cwd
  /\ dirs' = r.st.dirs
  /\ files' = r.st.files
  /\ raw' = line
  /\ exc' = r.exc
  /\ ret' = r.val
  /\ ran' = r.ran
  /\ out' = r.out
  /\ ok' = r.ok
  /\ steps' = steps + 1
  /\ UNCHANGED <<root, http>>

\* One execute call.  A command that never returns (a copytree into its own
\* subtree) is no step of the session.
Execute(line) ==
  /\ steps < MaxSteps
  /\ With(execute(State, line), LAMBDA r : r.exc # "Unbounded" /\ Called(line, r))

ExecuteCommand == \E line \in CommandLines : Execute(line)

ExecuteUnknown == \E line \in UnknownLines : Execute(line)

ExecuteRedirect == \E line \in RedirectLines : Execute(line)

ExecuteNatural == \E line \in NaturalLines : Execute(line)

ExecuteMalformed == \E line \in MalformedLines : Execute(line)

Next ==
  \/ ExecuteCommand
  \/ ExecuteUnknown
  \/ ExecuteRedirect
  \/ ExecuteNatural
  \/ ExecuteMalformed

Spec == Init /\ [][Next]_vars

\* ------------------------------------------------------------------ app.py

\* The command lines the HTTP clients send.
HttpLines == {<<"c", "d", " ", "a">>, <<"c", "d">>, <<"m", "v", " ", "f", " ", "x">>, <<"p", "w", "d">>}

\* The arguments of a line whose first token is mv.
mvArgs(line) == Tail(shlex_split(line).toks)

\* Whether line is a complete mv command.
isMv(line) ==
  With(shlex_split(line).toks, LAMBDA parts :
       Len(parts) = 3 /\ parts[1] = <<"m", "v">>)

\* The thread t with the fields of rec changed.
Thread(t, rec) == [http EXCEPT ![t] = rec @@ @]

\* run_command, up to the call of tb.execute: thread t takes a request.
HttpReceive(t) ==
  /\ http[t].pc = "idle"
  /\ \E line \in HttpLines :
       http' = Thread(t, [pc |-> IF isMv(line) THEN "mv_src" ELSE "execute",
                          line |-> line])
  /\ UNCHANGED <<root, cwd, dirs, files, raw, exc, ret, ran, out, ok, steps>>

\* The session and the thread t after its execute call ended as r.
HttpExecuted(t, r) ==
  /\ cwd' = r.st.cwd
  /\ dirs' = r.st.dirs
  /\ files' = r.st.files
  /\ http' = Thread(t, [pc |-> "respond", output |-> r.val,
                        left |-> cmd_pwd(r.st, <<>>).val])
  /\ UNCHANGED <<root, raw, exc, ret, ran, out, ok, steps>>

\* tb.execute(cmd) for a command other than mv, which reads and writes
\* self.cwd in one statement.
HttpExecute(t) ==
  /\ http[t].pc = "execute"
  /\ HttpExecuted(t, execute(State, http[t].line))

\* cmd_mv, first statement: src = self._resolve(args[0])
HttpMvSrc(t) ==
  /\ http[t].pc = "mv_src"
  /\ With(_resolve(State, mvArgs(http[t].line)[1]), LAMBDA r :
          IF r.exc # "" THEN HttpExecuted(t, Ret(handled(r).st, handled(r).out))
          ELSE /\ http' = Thread(t, [pc |-> "mv_dst", src |-> r.val, cwdSrc |-> cwd])
               /\ UNCHANGED <<root, cwd, dirs, files, raw, exc, ret, ran, out, ok, steps>>)

\* cmd_mv, second statement: dst = self._resolve(args[1])
HttpMvDst(t) ==
  /\ http[t].pc = "mv_dst"
  /\ With(_resolve(State, mvArgs(http[t].line)[2]), LAMBDA r :
          IF r.exc # "" THEN HttpExecuted(t, Ret(handled(r).st, handled(r).out))
          ELSE /\ http' = Thread(t, [pc |-> "mv_move", dst |-> r.val, cwdDst |-> cwd])
               /\ UNCHANGED <<root, cwd, dirs, files, raw, exc, ret, ran, out, ok, steps>>)

\* cmd_mv, last statements: shutil.move(src, dst); return ""
HttpMvMove(t) ==
  /\ http[t].pc = "mv_move"
  /\ With(handled(Then(move(State, http[t].src, http[t].dst),
                       LAMBDA moved : Ret(moved.st, <<>>))),
          LAMBDA r : HttpExecuted(t, Ret(r.st, r.out)))

\* run_command, after tb.execute: the response holds tb.cmd_pwd(None).
HttpRespond(t) ==
  /\ http[t].pc = "respond"
  /\ http' = Thread(t, [pc |-> "done", cwdSent |-> cmd_pwd(State, <<>>).val])
  /\ UNCHANGED <<root, cwd, dirs, files, raw, exc, ret, ran, out, ok, steps>>

HttpNext ==
  \E t \in 1..HttpThreads :
    \/ HttpReceive(t)
    \/ HttpExecute(t)
    \/ HttpMvSrc(t)
    \/ HttpMvDst(t)
    \/ HttpMvMove(t)
    \/ HttpRespond(t)

\* The HTTP front end: the one backend tb, made at import over a sandbox
\* directory an earlier run has filled, served by the threads of app.run.
SpecHttp ==
  /\ \E l \in Layouts : l.dirs # {} /\ Start(NewBackend(l.dirs, l.files))
  /\ [][HttpNext]_vars

\* ------------------------------------------------------------------ properties

\* The file system state of the session is the one before the step.
Untouched == cwd' = cwd /\ dirs' = dirs /\ files' = files

\* C1: every path a command creates, writes, moves, copies or deletes is the
\* sandbox root or a descendant of it; a sibling of the root whose name only
\* begins with the root's name is never accepted.  As a property of the host
\* file system: outside the tree of the root there is nothing but the
\* directories above the root.
C1_NothingOutsideSandbox ==
  /\ \A d \in dirs : under(d, root) \/ d \in ancestors(root)
  /\ \A f \in DOMAIN files : under(f, root)

\* Whether the path p has a ".." component.
HasDotDot(p) == \E i \in DOMAIN split(p, "/") : split(p, "/")[i] = <<".", ".">>

\* C2: cwd is always the sandbox root or a descendant of it, so that pwd
\* never reports a path with a ".." component.
C2_CwdInsideRoot ==
  /\ under(cwd, root)
  /\ ~HasDotDot(cmd_pwd(State, <<>>).val)

\* C3: no exception leaves execute, whatever the line: a failure of the
\* command or of the redirection target comes back as returned text.
C3_ExecuteNeverRaises == exc = ""

\* A path of the last execute call failed the containment test of _resolve:
\* in the handler (the text of the PermissionError is returned) or at the
\* redirection target (the PermissionError left execute).
SandboxViolation ==
  \/ exc = "PermissionError"
  \/ ran /\ ~ok /\ startswith(out, <<"P", "e", "r", "m", "i", "s", "s", "i", "o", "n", "E", "r", "r", "o", "r", ":", " ">>)

\* C4: an execute call in which a path fails the containment test has no
\* partial effect: cwd and the file system are as before the call.
C4_ViolationHasNoEffect == [][SandboxViolation' => Untouched]_vars

\* Every line a client sends in the session.
Lines == CommandLines \cup UnknownLines \cup RedirectLines \cup NaturalLines \cup MalformedLines

\* The tokens of a line that lexes.
tokens(line) == shlex_split(strip(line)).toks

IsFlag(a) == a = <<"-", "r">> \/ a = <<"-", "-", "r", "e", "c", "u", "r", "s", "i", "v", "e">>

NotFlag(a) == ~IsFlag(a)

\* The arguments of an rm line that are not the recursive flag.
rmOperands(line) == SelectSeq(Tail(tokens(line)), NotFlag)

\* Whether line is an rm command that names one path.
IsRm(line) ==
  /\ line \in CommandLines
  /\ tokens(line)[1] = <<"r", "m">>
  /\ Len(rmOperands(line)) = 1

\* Whether the rm line names, from the state before the step, the path target.
rmNames(line, target) ==
  /\ IsRm(line)
  /\ _resolve(State, rmOperands(line)[1]).exc = ""
  /\ _resolve(State, rmOperands(line)[1]).val = target

\* C5: rm naming the root path, with or without the recursive flag and
\* wherever the flag stands, returns the "refusing to remove root" message
\* and leaves the file system unchanged.
C5_RmRootRefused ==
  [][rmNames(raw', root) =>
       /\ exc' = ""
       /\ ret' = <<"r", "m", ":", " ", "r", "e", "f", "u", "s", "i", "n", "g", " ", "t", "o", " ", "r", "e", "m", "o", "v", "e", " ", "r", "o", "o", "t", " ", "s", "a", "n", "d", "b", "o", "x">>
       /\ Untouched]_vars

\* The directories of the sandbox other than the root.
SandboxDirs == {d \in dirs : under(d, root) /\ d # root}

\* C6: rm naming a directory d of the sandbox other than the root deletes
\* nothing and returns the guidance message when the recursive flag is
\* absent; with the flag, before or after the path, it removes d with its
\* whole subtree and nothing else.
C6_RmDirectory ==
  [][\A d \in SandboxDirs : rmNames(raw', d) =>
       IF recursiveFlag(Tail(tokens(raw')))
         THEN /\ exc' = "" /\ ret' = <<>> /\ cwd' = cwd
              /\ dirs' = {x \in dirs : ~under(x, d)}
              /\ files' = [f \in {x \in DOMAIN files : ~under(x, d)} |-> files[f]]
         ELSE /\ exc' = "" /\ Untouched
              /\ ret' = <<"r", "m", ":", " ", "i", "s", " ", "a", " ", "d", "i", "r", "e", "c", "t", "o", "r", "y", " ", "(", "u", "s", "e", " ", "-", "r", " ", "t", "o", " ", "r", "e", "m", "o", "v", "e", " ", "d", "i", "r", "e", "c", "t", "o", "r", "i", "e", "s", ")">>]_vars

\* The natural-language lines of the session with the commands they stand for.
NaturalPairs ==
  {[nl |-> <<"c", "r", "e", "a", "t", "e", " ", "a", " ", "f", "o", "l", "d", "e", "r", " ", "c", "a", "l", "l", "e", "d", " ", "D">>, cmd |-> <<"m", "k", "d", "i", "r", " ", "D">>],
   [nl |-> <<"c", "r", "e", "a", "t", "e", " ", "f", "o", "l", "d", "e", "r", " ", "c", "a", "l", "l", "e", "d", " ", "a">>, cmd |-> <<"m", "k", "d", "i", "r", " ", "a">>],
   [nl |-> <<"m", "o", "v", "e", " ", "a", " ", "t", "o", " ", "b">>, cmd |-> <<"m", "v", " ", "a", " ", "b">>],
   [nl |-> <<"m", "o", "v", "e", " ", "f", " ", "t", "o", " ", "G">>, cmd |-> <<"m", "v", " ", "f", " ", "G">>]}

\* The step ends as the execute call r on the state before it.
EndsAs(r) ==
  /\ exc' = r.exc
  /\ ret' = r.val
  /\ cwd' = r.st.cwd
  /\ dirs' = r.st.dirs
  /\ files' = r.st.files

\* C7: a natural-language line yields the same output and the same resulting
\* file system as the command it stands for, for every operand, upper-case
\* letters included.
C7_NaturalSameAsCommand ==
  [][\A p \in NaturalPairs : raw' = p.nl => EndsAs(execute(State, p.cmd))]_vars

\* Whether line is a redirection with a target; redirectTarget is the target.
IsRedirect(line) ==
  /\ line \in RedirectLines
  /\ indexOfRedirect(tokens(line)) > 0
  /\ indexOfRedirect(tokens(line)) < Len(tokens(line))

redirectTarget(line) == tokens(line)[indexOfRedirect(tokens(line)) + 1]

\* The target of the redirection line resolves, from the state before the
\* step, inside the sandbox to a path that is not a directory.
TargetWritable(line) ==
  /\ IsRedirect(line)
  /\ _resolve(State, redirectTarget(line)).exc = ""
  /\ under(_resolve(State, redirectTarget(line)).val, root)
  /\ ~isdir(State, _resolve(State, redirectTarget(line)).val)

\* The backend after the step.
StateAfter == [root |-> root', cwd |-> cwd', dirs |-> dirs', files |-> files']

\* C8: a redirection c > p to such a target returns empty text, and a cat p
\* right after it returns exactly the text c produced, when that text is
\* within the size cap of cat.
C8_RedirectRoundTrip ==
  [][TargetWritable(raw') =>
       /\ exc' = ""
       /\ ret' = <<>>
       /\ Len(out') <= MAX_CAT_SIZE =>
            /\ cmd_cat(StateAfter, <<redirectTarget(raw')>>).exc = ""
            /\ cmd_cat(StateAfter, <<redirectTarget(raw')>>).val = out']_vars

\* Whether thread t is inside tb.execute: the call has read or written the
\* backend and has not returned.
InExecute(t) == http[t].pc \in {"mv_dst", "mv_move"}

\* Whether thread t has resolved both operands of its mv.
MvResolved(t) == isMv(http[t].line) /\ http[t].cwdSrc # <<>> /\ http[t].cwdDst # <<>>

\* C9: execute calls that arrive through the HTTP front end never overlap on
\* the shared backend: a call is never entered by one thread while another
\* thread is inside one, both operands of a mv are resolved against one cwd,
\* and the cwd a response reports is the one its own command left.
C9_ExecuteCallsSerialized ==
  /\ \A t \in 1..HttpThreads : \A u \in 1..HttpThreads :
       InExecute(t) /\ InExecute(u) => t = u
  /\ \A t \in 1..HttpThreads : MvResolved(t) => http[t].cwdSrc = http[t].cwdDst
  /\ \A t \in 1..HttpThreads : http[t].pc = "done" => http[t].cwdSent = http[t].left

\* Whether line has no redirection, matches no pattern of the translator and
\* begins with a token that is no registered command.
UnknownCommand(line) ==
  /\ ~nl_to_cmd(line).matched
  /\ shlex_split(strip(line)).err = <<>>
  /\ tokens(line) # <<>>
  /\ indexOfRedirect(tokens(line)) = 0
  /\ tokens(line)[1] \notin COMMANDS

\* The execute call r returned "<first token>: command not found" for line
\* and left the backend st as it was.
NotFound(st, line, r) ==
  /\ r.exc = ""
  /\ r.val = tokens(line)[1] \o <<":", " ", "c", "o", "m", "m", "a", "n", "d", " ", "n", "o", "t", " ", "f", "o", "u", "n", "d">>
  /\ r.st = st

\* C10: in every state of the session, a line without redirection that
\* matches no translator pattern and whose first token is no registered
\* command returns exactly "<first token>: command not found" and leaves cwd
\* and the file system unchanged, so that later commands run as they would
\* have run without it.
C10_UnknownCommandNotFound ==
  \A line \in Lines : UnknownCommand(line) => NotFound(State, line, execute(State, line))

\* An unknown command with a quoted first token was executed after another
\* command of the session and was reported by its first token.
C10_UnknownCommandExecuted ==
  /\ steps > 1
  /\ raw = <<"'", "x", " ", "y", "'", " ", "z">>
  /\ UnknownCommand(raw)
  /\ ret = <<"x", " ", "y", ":", " ", "c", "o", "m", "m", "a", "n", "d", " ", "n", "o", "t", " ", "f", "o", "u", "n", "d">>
  /\ dirs # {SEP} \cup ancestors(root)

\* C11: from every reachable state of the session a cd without arguments
\* returns empty text and sets cwd to the root, changing nothing else, and a
\* pwd executed right after it returns exactly "/".
C11_CdHome ==
  LET home == execute(State, <<"c", "d">>)
  IN /\ home.exc = ""
     /\ home.val = <<>>
     /\ home.st = [State EXCEPT !.cwd = root]
     /\ execute(home.st, <<"p", "w", "d">>).exc = ""
     /\ execute(home.st, <<"p", "w", "d">>).val = <<"/">>

\* The session stands in the directory a, where pwd returns "/a"; the cd
\* without arguments executed there leads to the root and pwd returns "/".
C11_CdHomeFromBelow ==
  /\ raw = <<"c", "d", " ", "a">>
  /\ cwd = <<"/", "w", "/", "s", "/", "a">>
  /\ execute(State, <<"p", "w", "d">>).val = <<"/", "a">>
  /\ execute(State, <<"c", "d">>).st.cwd = root
  /\ execute(execute(State, <<"c", "d">>).st, <<"p", "w", "d">>).val = <<"/">>

\* ------------------------------------------------------------------ cat at the size cap

\* How far beyond MAX_CAT_SIZE the sizes of the files go.
MaxExtra == 2

\* The file that cat reads.
CatFile == <<"/", "w", "/", "s", "/", "f">>

\* Every text of x and line feeds up to the largest size.
Contents == UNION {[1..n -> {"x", "LF"}] : n \in 0..(MAX_CAT_SIZE + MaxExtra)}

\* The lines that name the file, from the root.
CatLines == {<<"c", "a", "t", " ", "f">>, <<"c", "a", "t", " ", "/", "f">>, <<"c", "a", "t", " ", ".", "/", "f">>}

\* A backend constructed over a sandbox that holds the file with some content.
InitCat == \E content \in Contents : Start(NewBackend({}, CatFile :> content))

ExecuteCat == \E line \in CatLines : Execute(line)

\* Sessions of cat on a file of every size around the cap.
SpecCat == InitCat /\ [][ExecuteCat]_vars

\* C12: cat returns the content of a regular file iff its size is at most
\* the cap N = MAX_CAT_SIZE: at size N the content comes back, at size N + 1
\* and above the "file too large (s bytes)" message and none of the content;
\* the file is left as it is.
C12_CatSizeBoundary ==
  steps > 0 =>
    /\ exc = ""
    /\ DOMAIN files = {CatFile}
    /\ IF Len(files[CatFile]) <= MAX_CAT_SIZE
         THEN ret = files[CatFile]
         ELSE ret = <<"c", "a", "t", ":", " ", "f", "i", "l", "e", " ", "t", "o", "o", " ", "l", "a", "r", "g", "e", " ", "(">> \o decimal(Len(files[CatFile])) \o <<" ", "b", "y", "t", "e", "s", ")">>

\* cat was executed on a file that is one byte larger than the cap.
C12_CatOneOverCap ==
  /\ steps > 0
  /\ raw = <<"c", "a", "t", " ", "f">>
  /\ Len(files[CatFile]) = MAX_CAT_SIZE + 1
  /\ ret = <<"c", "a", "t", ":", " ", "f", "i", "l", "e", " ", "t", "o", "o", " ", "l", "a", "r", "g", "e", " ", "(", "9", " ", "b", "y", "t", "e", "s", ")">>

\* ------------------------------------------------------------------ properties, continued

\* The lists of argument words given to echo.
EchoWords ==
  {<<>>, <<<<"h", "i">>>>, <<<<"a">>, <<"b">>>>, <<<<"a", " ", "b">>, <<"c">>>>, <<<<">">>>>, <<<<"a">>, <<">">>, <<"b">>>>}

RECURSIVE quotedWords(_)
\* Each word as one shell-quoted token, a space before each.
quotedWords(words) ==
  IF words = <<>> THEN <<>>
  ELSE <<" ">> \o quote(Head(words)) \o quotedWords(Tail(words))

\* The echo line that passes the words, each as one quoted token.
echoLine(words) == <<"e", "c", "h", "o">> \o quotedWords(words)

\* C13: echo never fails: for every list of words, each passed as one
\* shell-quoted token (a quoted ">" among them), the line returns the words
\* joined by single spaces and changes no state.
C13_EchoJoinsWords ==
  \A words \in EchoWords :
    LET r == execute(State, echoLine(words))
    IN /\ r.exc = ""
       /\ r.val = joinWith(<<" ">>, words)
       /\ r.st = State

\* The tokens of the command part of a line: those before the first ">".
commandPart(line) ==
  IF indexOfRedirect(tokens(line)) > 0
    THEN SubSeq(tokens(line), 1, indexOfRedirect(tokens(line)) - 1)
    ELSE tokens(line)

\* Whether line runs the cd handler: it is tokenized as it stands, its ">"
\* has a target and the first token of its command part is cd.
IsCd(line) ==
  /\ ~nl_to_cmd(line).matched
  /\ shlex_split(strip(line)).err = <<>>
  /\ indexOfRedirect(tokens(line)) < Len(tokens(line))
  /\ commandPart(line) # <<>>
  /\ commandPart(line)[1] = <<"c", "d">>

\* Whether line is a cd that succeeds, from the state before the step, and
\* leads to the directory target.
cdEnters(line, target) ==
  /\ IsCd(line)
  /\ IF Len(commandPart(line)) = 1 THEN target = root
     ELSE /\ _resolve(State, commandPart(line)[2]).exc = ""
          /\ _resolve(State, commandPart(line)[2]).val = target
          /\ isdir(State, target)

\* C14: root never changes, and cwd is changed only by a successful cd:
\* every other command, unknown commands and parse errors, a cd whose target
\* is no directory and a cd rejected by the containment test leave cwd as
\* it is.
C14_CwdChangedOnlyByCd ==
  [][/\ root' = root
     /\ cwd' # cwd => cdEnters(raw', cwd')]_vars

\* A cd whose target is no directory was executed in the directory a: it
\* returned the message and the session is still in a.
C14_FailedCdStays ==
  /\ steps > 1
  /\ raw = <<"c", "d", " ", "f">>
  /\ ret = <<"c", "d", ":", " ", "n", "o", " ", "s", "u", "c", "h", " ", "d", "i", "r", "e", "c", "t", "o", "r", "y", ":", " ", "f">>
  /\ cwd = <<"/", "w", "/", "s", "/", "a">>

\* The line that execute tokenizes: the translation of a line that matches a
\* pattern of the translator, else the line itself.
translated(line) == IF nl_to_cmd(line).matched THEN nl_to_cmd(line).cmd ELSE line

\* Whether the quoting of the tokenized line is malformed.
MalformedQuoting(line) == shlex_split(strip(translated(line))).err # <<>>

\* Whether the ">" of the tokenized line has no token after it.
DanglingRedirect(line) ==
  /\ ~MalformedQuoting(line)
  /\ indexOfRedirect(tokens(translated(line))) > 0
  /\ indexOfRedirect(tokens(translated(line))) = Len(tokens(translated(line)))

\* The lines of the session that are malformed in one of the two ways.
ParseFailures == {line \in Lines : MalformedQuoting(line) \/ DanglingRedirect(line)}

\* C15: in every state of the session a line with malformed quoting returns
\* a "parse error: ..." message and a line whose ">" has no token after it
\* returns the syntax error message, before any handler runs: cwd and the
\* file system are unchanged, also when the command part before ">" would
\* have had an effect.
C15_ParseErrorBeforeHandler ==
  \A line \in ParseFailures :
    LET r == execute(State, line)
    IN /\ MalformedQuoting(line) =>
            /\ r.exc = "" /\ ~r.ran /\ r.st = State
            /\ startswith(r.val, <<"p", "a", "r", "s", "e", " ", "e", "r", "r", "o", "r", ":", " ">>)
       /\ DanglingRedirect(line) =>
            /\ r.exc = "" /\ ~r.ran /\ r.st = State
            /\ r.val = <<"s", "y", "n", "t", "a", "x", " ", "e", "r", "r", "o", "r", " ", "n", "e", "a", "r", " ", "u", "n", "e", "x", "p", "e", "c", "t", "e", "d", " ", "t", "o", "k", "e", "n", " ", "'", ">", "'">>

\* The line "mkdir D >" was executed: the syntax error came back, no handler
\* ran and there is no directory D.
C15_DanglingMkdirExecuted ==
  /\ steps > 0
  /\ raw = <<"m", "k", "d", "i", "r", " ", "D", " ", ">">>
  /\ DanglingRedirect(raw)
  /\ ret = <<"s", "y", "n", "t", "a", "x", " ", "e", "r", "r", "o", "r", " ", "n", "e", "a", "r", " ", "u", "n", "e", "x", "p", "e", "c", "t", "e", "d", " ", "t", "o", "k", "e", "n", " ", "'", ">", "'">>
  /\ ~ran
  /\ <<"/", "w", "/", "s", "/", "D">> \notin dirs

\* The operands given to mkdir.
MkdirOperands ==
  {<<"a">>, <<"D">>, <<"a", "/", "b">>, <<"x", "/", "y">>, <<"/", "a", "/", "c">>, <<".">>, <<".", ".">>, <<"f">>, <<"f", "/", "x">>, <<".", ".", "/", "s", "2">>}

\* Whether no regular file stands at the path t or above it.
Unblocked(t) == \A a \in ancestors(t) : ~isfile(State, a)

\* C16: for every operand p that resolves inside the sandbox and is not
\* blocked by a regular file, mkdir p returns empty text and adds exactly the
\* directory p and its missing ancestors below the root, keeping every entry
\* there is; a second mkdir p returns empty text and leaves the file system
\* as the first one left it.
C16_MkdirIdempotent ==
  \A p \in MkdirOperands :
    LET t == _resolve(State, p)
        once == execute(State, <<"m", "k", "d", "i", "r", " ">> \o p)
        twice == execute(once.st, <<"m", "k", "d", "i", "r", " ">> \o p)
    IN (t.exc = "" /\ under(t.val, root) /\ Unblocked(t.val)) =>
         /\ once.exc = "" /\ once.val = <<>>
         /\ once.st.cwd = cwd /\ once.st.files = files
         /\ once.st.dirs = dirs \cup {a \in ancestors(t.val) : under(a, root)}
         /\ twice.exc = "" /\ twice.val = <<>>
         /\ twice.st = once.st

\* mkdir a/b was executed in the empty sandbox: a and a/b exist, and a
\* second mkdir a/b changes nothing.
C16_MkdirMadeParents ==
  /\ steps = 1
  /\ raw = <<"m", "k", "d", "i", "r", " ", "a", "/", "b">>
  /\ ret = <<>>
  /\ files = <<>>
  /\ {<<"/", "w", "/", "s", "/", "a">>, <<"/", "w", "/", "s", "/", "a", "/", "b">>} \subseteq dirs
  /\ execute(State, <<"m", "k", "d", "i", "r", " ", "a", "/", "b">>).st = State

\* Names of directories and of files for the sequence mkdir, touch, ls.
DirNames == {<<"D">>, <<"x">>, <<"a">>}

FileNames == {<<"f">>, <<"G", ".", "t", "x", "t">>}

\* The operands given to ls; the empty one stands for ls without operand.
LsOperands == {<<>>, <<" ", "a">>, <<" ", "/">>, <<" ", "a", "/", "b">>, <<" ", ".", ".">>, <<" ", "/", "a">>}

\* The entries the directory t holds.
Entries(t) == {q \in dirs \cup DOMAIN files : q # t /\ dirname(q) = t}

\* An entry as ls shows it, and a shown name without the mark of a directory.
shown(q) == basename(q) \o (IF q \in dirs THEN SEP ELSE <<>>)

bare(name) ==
  IF name # <<>> /\ name[Len(name)] = "/" THEN SubSeq(name, 1, Len(name) - 1) ELSE name

\* Whether text lists exactly the entries of t, one on a line, in the order
\* of their names.
Lists(text, t) ==
  LET names == IF text = <<>> THEN <<>> ELSE split(text, "LF")
  IN /\ Len(names) = Cardinality(Entries(t))
     /\ {names[i] : i \in 1..Len(names)} = {shown(q) : q \in Entries(t)}
     /\ \A i \in 1..Len(names) : \A j \in 1..Len(names) :
          i < j => strLess(bare(names[i]), bare(names[j]))

\* C17: ls reflects the commands before it.  For every fresh directory name
\* d and file name f, mkdir d, touch d/f and ls d in a row return empty
\* text twice and then exactly f; and ls on any directory returns exactly
\* the names of its entries, sorted, with "/" after those that are
\* directories.
C17_LsShowsEntries ==
  /\ \A d \in DirNames : \A f \in FileNames :
       LET t == _resolve(State, d)
           made == execute(State, <<"m", "k", "d", "i", "r", " ">> \o d)
           touched == execute(made.st, <<"t", "o", "u", "c", "h", " ">> \o d \o SEP \o f)
           listed == execute(touched.st, <<"l", "s", " ">> \o d)
       IN (t.exc = "" /\ ~exists(State, t.val) /\ Unblocked(t.val)) =>
            /\ made.exc = "" /\ made.val = <<>>
            /\ touched.exc = "" /\ touched.val = <<>>
            /\ listed.exc = "" /\ listed.val = f
            /\ listed.st = touched.st
  /\ \A p \in LsOperands :
       LET t == IF p = <<>> THEN Ret(State, cwd) ELSE _resolve(State, Tail(p))
           listed == execute(State, <<"l", "s">> \o p)
       IN (t.exc = "" /\ isdir(State, t.val)) =>
            /\ listed.exc = "" /\ listed.st = State
            /\ Lists(listed.val, t.val)

\* ls a was executed after touch a/f in the sandbox that holds a/b and a/g:
\* it shows the directory b, the new file f and the file g.
C17_LsAfterTouch ==
  /\ steps = 2
  /\ raw = <<"l", "s", " ", "a">>
  /\ <<"/", "w", "/", "s", "/", "a", "/", "f">> \in DOMAIN files
  /\ ret = <<"b", "/", "LF", "f", "LF", "g">>

\* Commands that remove or move a directory named from the root.
RemovalLines == {<<"r", "m", " ", "/", "a", " ", "-", "r">>, <<"m", "v", " ", "/", "a", " ", "/", "x">>}

\* C18: in every reachable state of the session cwd names a directory that
\* exists, and it still does after one more rm -r or mv, also one applied to
\* cwd or to a directory above it.
C18_CwdExists ==
  /\ isdir(State, cwd)
  /\ \A line \in RemovalLines :
       isdir(execute(State, line).st, execute(State, line).st.cwd)

\* C19: the sandbox root directory made at construction exists at its place
\* in every reachable state: no rm and no mv deletes, renames or moves it.
C19_RootExists == isdir(State, Root) /\ root = Root

\* Whether text ends with the text suffix.
endswith(text, suffix) ==
  /\ Len(text) >= Len(suffix)
  /\ SubSeq(text, Len(text) - Len(suffix) + 1, Len(text)) = suffix

\* The command part of the last execute call ended in a failure report: an
\* unknown command, the text of an exception, a missing operand, or a target
\* that cd or cat did not find.
FailureReport ==
  /\ ran
  /\ \/ ~ok
     \/ out \in {<<"r", "m", ":", " ", "m", "i", "s", "s", "i", "n", "g", " ", "o", "p", "e", "r", "a", "n", "d">>, <<"m", "k", "d", "i", "r", ":", " ", "m", "i", "s", "s", "i", "n", "g", " ", "o", "p", "e", "r", "a", "n", "d">>,
                 <<"c", "a", "t", ":", " ", "m", "i", "s", "s", "i", "n", "g", " ", "f", "i", "l", "e", " ", "o", "p", "e", "r", "a", "n", "d">>, <<"t", "o", "u", "c", "h", ":", " ", "m", "i", "s", "s", "i", "n", "g", " ", "f", "i", "l", "e", " ", "o", "p", "e", "r", "a", "n", "d">>,
                 <<"m", "v", ":", " ", "m", "i", "s", "s", "i", "n", "g", " ", "o", "p", "e", "r", "a", "n", "d">>, <<"c", "p", ":", " ", "m", "i", "s", "s", "i", "n", "g", " ", "o", "p", "e", "r", "a", "n", "d">>}
     \/ startswith(out, <<"c", "d", ":", " ", "n", "o", " ", "s", "u", "c", "h", " ", "d", "i", "r", "e", "c", "t", "o", "r", "y", ":", " ">>)
     \/ startswith(out, <<"c", "a", "t", ":", " ">>) /\ endswith(out, <<":", " ", "N", "o", " ", "s", "u", "c", "h", " ", "f", "i", "l", "e">>)

\* C20: a command that fails leaves the state unchanged: when the command
\* part of a line, with or without redirection, ends in a failure report,
\* cwd and the file system after the call are those before it.
C20_FailureChangesNothing == [][FailureReport' => Untouched]_vars

====
